---- MODULE Spec2Model ----
(***************************************************************************)
(* A model of the backup / restore / CSV orchestrator of                   *)
(* src/src/db_operations.py (class DatabaseOperations).                    *)
(*                                                                         *)
(* The external collaborators (psql, pg_dump, the file system) are the     *)
(* environment: their outcomes (stdout, exit code, I/O error) are chosen   *)
(* nondeterministically, and the orchestrator's reaction is translated     *)
(* from the code.                                                          *)
(***************************************************************************)
EXTENDS Integers, Sequences, FiniteSets, TLC

(***************************************************************************)
(* Bounds of the model.                                                    *)
(***************************************************************************)
\* major versions range over 1..MaxMajor
MaxMajor == 2
\* SQL payloads (and files found on disk) hold at most MaxStmts statements
MaxStmts == 2
\* an export / import batch holds at most MaxItems items
MaxItems == 3

(***************************************************************************)
(* Version strings.  A token of a tool's stdout is the sequence of its     *)
(* '.'-separated parts; a part is its leading decimal digits (digits = -1  *)
(* when it has none) and the text that follows them.  "16.2" is            *)
(* <<Part(16,""), Part(2,"")>>, "16beta1" is <<Part(16,"beta1")>>, the     *)
(* word "PostgreSQL" is <<Part(-1,"PostgreSQL")>>.                         *)
(***************************************************************************)
Part(d, t) == [digits |-> d, tail |-> t]
Word(w) == << Part(-1, w) >>

\* the empty string "" that _get_pg_versions returns on any exception
NoVersion == << >>

Versions ==
    UNION { { << Part(d, "") >>,
              << Part(d, ""), Part(2, "") >>,
              << Part(d, "beta1") >> } : d \in 1..MaxMajor }

\* stdout of `psql -t -c "SELECT version();"`, split on whitespace:
\* nothing (query failed), one token, or "PostgreSQL <version> on ..."
ServerStdouts ==
    { << >>, << Word("PostgreSQL") >> }
      \cup { << Word("PostgreSQL"), v, Word("on") >> : v \in Versions }

\* stdout of `pg_dump --version`, split on whitespace:
\* nothing, two tokens, or "pg_dump (PostgreSQL) <version>"
DumpStdouts ==
    { << >>, << Word("pg_dump"), Word("(PostgreSQL)") >> }
      \cup { << Word("pg_dump"), Word("(PostgreSQL)"), v >> : v \in Versions }

\* int(s) succeeds iff s is all digits
IsInt(p) == p.digits >= 0 /\ p.tail = ""

\* _get_pg_versions: stdout.strip().split()[1] and [2]; an IndexError is
\* caught and both versions come back as "".
GetPgVersions(sout, dout) ==
    IF Len(sout) < 2 \/ Len(dout) < 3
    THEN << NoVersion, NoVersion >>
    ELSE << sout[2], dout[3] >>

\* faulty variant: the comparison of the majors reversed
CheckVersionCompatibility_Reversed(sout, dout) ==
    LET v == GetPgVersions(sout, dout) IN
    IF v[1] = NoVersion \/ v[2] = NoVersion THEN "fail"
    ELSE IF ~IsInt(Head(v[1])) \/ ~IsInt(Head(v[2])) THEN "raise"
    ELSE IF Head(v[2]).digits > Head(v[1]).digits THEN "fail"
    ELSE "pass"

\* _check_version_compatibility: "pass" (True), "fail" (False) or "raise"
\* (int() raises ValueError, which the method does not catch).
CheckVersionCompatibility(sout, dout) ==
    LET v == GetPgVersions(sout, dout) IN
    IF v[1] = NoVersion \/ v[2] = NoVersion THEN "fail"
    ELSE IF ~IsInt(Head(v[1])) \/ ~IsInt(Head(v[2])) THEN "raise"
    ELSE IF Head(v[2]).digits < Head(v[1]).digits THEN "fail"
    ELSE "pass"

(***************************************************************************)
(* Files.  A file's content is a sequence of tokens: "H" is a gzip member  *)
(* header, "T" a gzip member trailer, and a statement token is one SQL     *)
(* statement (as raw text, or as its deflate block between "H" and "T").   *)
(***************************************************************************)
Tables == { "orders", "users" }

\* "c_orders" / "c_users": CREATE TABLE orders / users;
\* "bad": a statement that always errors
Stmts == { "c_orders", "c_users", "bad" }
Tokens == Stmts \cup { "H", "T" }

SeqsUpTo(S, n) == UNION { [1..k -> S] : k \in 0..n }

Payloads == SeqsUpTo(Stmts, MaxStmts)

NoFile == [exists |-> FALSE, data |-> << >>]
File(d) == [exists |-> TRUE, data |-> d]

\* gzip.open(path, 'wb') + writelines: one complete member
Gzip(p) == << "H" >> \o p \o << "T" >>

Tail2(d) == SubSeq(d, 3, Len(d))

\* gzip.open(path, 'rb').read(1): TRUE when it returns (a byte, or b'' at
\* end of file), FALSE when it raises (BadGzipFile, EOFError, zlib.error).
RECURSIVE GzipRead1(_)
GzipRead1(d) ==
    IF d = << >> THEN TRUE
    ELSE IF Head(d) # "H" THEN FALSE
    ELSE IF Len(d) = 1 THEN FALSE
    ELSE IF d[2] \in Stmts THEN TRUE
    ELSE IF d[2] = "T" THEN GzipRead1(Tail2(d))
    ELSE FALSE

\* gzip.open(path, 'rb').read(): the decompressed content of all members,
\* or a raise.  An empty file reads as b''.
RECURSIVE GzipReadFrom(_, _, _)
GzipReadFrom(d, inMember, acc) ==
    IF d = << >>
    THEN [ok |-> ~inMember, out |-> acc]
    ELSE IF ~inMember
         THEN IF Head(d) = "H" THEN GzipReadFrom(Tail(d), TRUE, acc)
              ELSE [ok |-> FALSE, out |-> acc]
         ELSE IF Head(d) \in Stmts
              THEN GzipReadFrom(Tail(d), TRUE, Append(acc, Head(d)))
              ELSE IF Head(d) = "T" THEN GzipReadFrom(Tail(d), FALSE, acc)
              ELSE [ok |-> FALSE, out |-> acc]

GzipReadAll(d) == GzipReadFrom(d, FALSE, << >>)

\* faulty variant: the size check dropped
VerifyBackupFile_NoSizeCheck(f) ==
    f.exists /\ GzipRead1(f.data)

\* _verify_backup_file as a function of what the path holds
VerifyBackupFile(f) ==
    IF ~f.exists THEN FALSE
    ELSE IF Len(f.data) = 0 THEN FALSE
    ELSE GzipRead1(f.data)

(***************************************************************************)
(* The external tools.                                                     *)
(***************************************************************************)
\* pg_dump -F p: the plain-text dump of the database, one CREATE per table
\* in name order
DumpOf(d) ==
    (IF "orders" \in d THEN << "c_orders" >> ELSE << >>)
      \o (IF "users" \in d THEN << "c_users" >> ELSE << >>)

\* faulty variant: the names are returned whatever the query's exit code
GetAllTables_ExitIgnored(d, ok) ==
    (IF "orders" \in d THEN << << "public", ".", "orders" >> >> ELSE << >>)
      \o (IF "users" \in d THEN << << "public", ".", "users" >> >> ELSE << >>)

\* get_all_tables: the list of names (a name is a sequence of symbols,
\* "." the dot); [] when the query exits nonzero, else schema.table of
\* every table, ordered by name
GetAllTables(d, ok) ==
    IF ~ok THEN << >>
    ELSE (IF "orders" \in d THEN << << "public", ".", "orders" >> >> ELSE << >>)
           \o (IF "users" \in d THEN << << "public", ".", "users" >> >> ELSE << >>)

Prefixes(s) == { SubSeq(s, 1, k) : k \in 0..Len(s) }

\* faulty variant: each CREATE statement makes the other table
TableOf_Crossed(st) == IF st = "c_orders" THEN "users" ELSE "orders"

\* the table a CREATE statement creates
TableOf(st) == IF st = "c_orders" THEN "orders" ELSE "users"

\* a statement errors when it is invalid or creates a table that exists
StmtErrors(st, d) == st = "bad" \/ TableOf(st) \in d

\* psql has the variable ON_ERROR_STOP set on its command line
OnErrorStop(c) ==
    \E i \in 1..(Len(c) - 1) : c[i] = "-v" /\ c[i + 1] = "ON_ERROR_STOP=1"

\* psql reading a script on stdin: statements are applied in order; with
\* ON_ERROR_STOP it stops at the first error and exits 3, without it the
\* error is reported, the script goes on and psql exits 0.
RECURSIVE PsqlRun(_, _, _, _)
PsqlRun(script, d, done, stop) ==
    IF script = << >>
    THEN [db |-> d, applied |-> done, exit |-> 0]
    ELSE IF StmtErrors(Head(script), d)
         THEN IF stop
              THEN [db |-> d, applied |-> done, exit |-> 3]
              ELSE PsqlRun(Tail(script), d, done, stop)
         ELSE PsqlRun(Tail(script),
                      d \cup { TableOf(Head(script)) },
                      Append(done, Head(script)), stop)

(***************************************************************************)
(* Command lines.                                                          *)
(***************************************************************************)
\* faulty variant: the flag given once, followed by all the names
Flags_Once(flag, xs) ==
    IF xs = << >> THEN << >> ELSE << flag >> \o xs

\* one flag per name: for x in xs: cmd.extend([flag, x])
RECURSIVE Flags(_, _)
Flags(flag, xs) ==
    IF xs = << >> THEN << >>
    ELSE << flag, Head(xs) >> \o Flags(flag, Tail(xs))

\* the schema / table filters a caller may pass (None or a list)
SchemaFilters == { << >>, << "public" >> }
TableFilters == { << >>, << "public.users" >> }

\* backup, lines 145-163
DumpCmd(schemas, tables) ==
    << "pg_dump", "-h", "DB_HOST", "-p", "DB_PORT", "-U", "DB_USER",
       "-d", "DB_NAME", "-F", "p", "-f", "backup_file" >>
      \o Flags("-n", schemas) \o Flags("-t", tables)

\* the connection arguments every psql command line starts with
PsqlCmd ==
    << "psql", "-h", "DB_HOST", "-p", "DB_PORT", "-U", "DB_USER",
       "-d", "DB_NAME" >>

\* _get_pg_versions, lines 71-79 and 86
ServerVersionCmd == PsqlCmd \o << "-t", "-c", "SELECT version();" >>
DumpVersionCmd == << "pg_dump", "--version" >>

\* get_all_tables, lines 269-282
EnumerateCmd ==
    PsqlCmd \o << "-t", "-c", "SELECT schemaname || '.' || tablename ..." >>

\* export_to_csv, lines 333-340, and import_from_csv, lines 401-426; the
\* SQL text after -c is spelled as its symbols
CopyToCmd(schema, table) ==
    PsqlCmd \o << "-c", "\\COPY" >> \o schema \o << "." >> \o table
      \o << "TO", "output_dir/" >> \o schema \o << "." >> \o table
      \o << ".csv", "WITH CSV HEADER" >>

TruncateCmd(schema, table) ==
    PsqlCmd \o << "-c", "TRUNCATE TABLE" >> \o schema \o << "." >> \o table

CopyFromCmd(schema, table, file) ==
    PsqlCmd \o << "-c", "\\COPY" >> \o schema \o << "." >> \o table
      \o << "FROM" >> \o file \o << "WITH CSV HEADER" >>

\* faulty variant: the restore command built without ON_ERROR_STOP
RestoreCmd_NoStop(schemas, tables) ==
    << "psql", "-h", "DB_HOST", "-p", "DB_PORT", "-U", "DB_USER",
       "-d", "DB_NAME" >>
      \o Flags("-n", schemas) \o Flags("-t", tables)

\* restore, lines 216-233
RestoreCmd(schemas, tables) ==
    << "psql", "-h", "DB_HOST", "-p", "DB_PORT", "-U", "DB_USER",
       "-d", "DB_NAME", "-v", "ON_ERROR_STOP=1" >>
      \o Flags("-n", schemas) \o Flags("-t", tables)

(***************************************************************************)
(* State.                                                                  *)
(***************************************************************************)
VARIABLES
    op,         \* the operation in progress: "none", "backup", "restore",
                \* "verify", "export", "import"
    pc,         \* the step the operation is at
    result,     \* "none" while running; what the call gave its caller:
                \* "success" (True), "failure" (False), "raised" (exception)
    serverOut,  \* stdout of the server version query seen by the gate
    dumpOut,    \* stdout of pg_dump --version seen by the gate
    fs,         \* what the artifact path and <artifact path>.gz hold
    db,         \* the tables of the database
    steps,      \* the steps this invocation has executed, in order
    cmd,        \* the command line of the dump / restore process launched
    exitCode,   \* its exit code, -1 while none has been launched
    stdin,      \* what restore fed to the executor
    applied,    \* the statements the executor applied
    items,      \* export / import: the batch
    idx,        \* export / import: items processed so far
    success,    \* export / import: the loop's success flag
    truncate,   \* import: the truncate argument
    log,        \* export / import: the commands issued, in order
    listed,     \* what get_all_tables returned, while it is the last call
                \* made (on its own or by export_to_csv)
    trip,       \* where the calls stand in the sequence get_all_tables,
                \* backup, restore, get_all_tables
    calls,      \* _get_backup_filename: the calls to make (prefix, time
                \* zone of the process, instant of the call)
    names,      \* _get_backup_filename: the names returned so far
    environ,    \* os.environ, the orchestrator's own process environment
    procs,      \* the processes the current call has launched, in order:
                \* command line and environment of each
    filters,    \* command construction on its own: the schemas and tables
                \* arguments of the call
    inputDir,   \* import: the input_dir argument, when the call was given
                \* no file list and so has to look at it
    hadFile,    \* backup: a file lay at the artifact path when the call began
    ioError,    \* backup: verification met an I/O error
    rows        \* import: the rows of each table a file can be loaded into

vars == << op, pc, result, serverOut, dumpOut, fs, db, steps, cmd, exitCode,
           stdin, applied, items, idx, success, truncate, log, listed,
           trip, calls, names, environ, procs, filters, inputDir, hadFile,
           ioError, rows >>

gateVars == << serverOut, dumpOut >>
procVars == << cmd, exitCode, stdin, applied >>
csvVars == << items, idx, success, truncate, log >>
histVars == << listed, trip >>
nameVars == << calls, names >>
envVars == << environ, procs >>
pathVars == << hadFile, ioError >>

Paths == { "artifact", "tmp" }

\* what may lie at the artifact path before the first call: nothing, a raw
\* SQL file, a gzip of one, or a gzip cut short before its trailer
InitFiles ==
    { NoFile }
      \cup { File(p) : p \in Payloads }
      \cup { File(Gzip(p)) : p \in Payloads }
      \cup { File(<< "H" >> \o p) : p \in Payloads }

Idle ==
    /\ op = "none" /\ pc = "idle" /\ result = "none"
    /\ serverOut = << >> /\ dumpOut = << >>
    /\ steps = << >> /\ cmd = << >> /\ exitCode = -1
    /\ stdin = << >> /\ applied = << >>

NoBatch ==
    /\ items = << >> /\ idx = 0 /\ success = TRUE /\ truncate = FALSE
    /\ log = << >>

\* the result of a get_all_tables call: the list returned and whether its
\* query exited 0
Listing(ok, tables) == [ok |-> ok, tables |-> tables]

\* get_all_tables was not the last call made
NoListing == Listing(FALSE, << >>)

NoTrip == [phase |-> "none", before |-> NoListing]

NoHistory ==
    /\ listed = NoListing
    /\ trip = NoTrip

NoNames == calls = << >> /\ names = << >>

\* Config.DB_PASSWORD
Password == "secret"

\* an environment is a set of << name, value >> entries.  The environment
\* the orchestrator is started with holds the password as DB_PASSWORD (put
\* there by the caller or by load_dotenv) and a PGPASSWORD of its own.
OsEnviron ==
    { << "PATH", "/usr/bin" >>, << "DB_PASSWORD", Password >>,
      << "PGPASSWORD", "stale" >> }

\* env[name] = value
SetEnv(e, name, value) ==
    { x \in e : x[1] # name } \cup { << name, value >> }

\* faulty variant: no copy is made, os.environ itself gets the entry
ChildEnv_InPlace(e) ==
    [own |-> SetEnv(e, "PGPASSWORD", Password),
     child |-> SetEnv(e, "PGPASSWORD", Password)]

\* env = os.environ.copy(); env["PGPASSWORD"] = self.config.DB_PASSWORD:
\* the orchestrator's environment and the child's after the two statements
ChildEnv(e) ==
    [own |-> e, child |-> SetEnv(e, "PGPASSWORD", Password)]

\* a command line to run: with env=env, or with no env argument (the child
\* then inherits os.environ)
Run(argv, withEnv) == [argv |-> argv, withEnv |-> withEnv]

Proc(argv, env) == [argv |-> argv, env |-> env]

\* subprocess.run of each command of cmds, one after the other
RECURSIVE Launched(_, _)
Launched(cmds, e) ==
    IF cmds = << >> THEN [own |-> e, procs |-> << >>]
    ELSE LET c == Head(cmds)
             made == IF c.withEnv THEN ChildEnv(e)
                     ELSE [own |-> e, child |-> e]
             rest == Launched(Tail(cmds), made.own)
         IN [own |-> rest.own,
             procs |-> << Proc(c.argv, made.child) >> \o rest.procs]

\* the step launches the commands of cmds
Launch(cmds) ==
    /\ environ' = Launched(cmds, environ).own
    /\ procs' = procs \o Launched(cmds, environ).procs

\* the same for the first step of a call
LaunchFirst(cmds) ==
    /\ environ' = Launched(cmds, environ).own
    /\ procs' = Launched(cmds, environ).procs

\* a call begins: no process launched yet
NoProcs == procs' = << >> /\ environ' = environ

NoEnv == environ = OsEnviron /\ procs = << >>

\* schemas=None, tables=None
NoFilters == filters = [schemas |-> << >>, tables |-> << >>]

\* no import call without a file list has been made
DirNotUsed ==
    [used |-> FALSE,
     dir |-> [given |-> FALSE, exists |-> FALSE, csv |-> << >>]]

NoInputDir == inputDir = DirNotUsed

NoBackup == hadFile = FALSE /\ ioError = FALSE

\* the tables the files of an import batch name: public.users,
\* public.orders and .users
ImportTargets ==
    { << "public", ".", "users" >>, << "public", ".", "orders" >>,
      << ".", "users" >> }

\* every table holds the rows it had before the import; a CSV file holds
\* other rows
OldRows == { "old" }
FileRows == { "new" }

NoImport == rows = [t \in ImportTargets |-> OldRows]

Init ==
    /\ Idle
    /\ NoBatch
    /\ NoHistory
    /\ NoNames
    /\ NoEnv
    /\ NoInputDir
    /\ NoBackup
    /\ NoImport
    /\ NoFilters
    /\ fs \in [Paths -> InitFiles]
    /\ fs["tmp"] = NoFile
    /\ db \in SUBSET Tables

\* a step is entered
Step(name) == steps' = Append(steps, name)

\* the call returns res
Finish(res) == result' = res /\ pc' = "done"

(***************************************************************************)
(* backup and restore, step by step.                                       *)
(***************************************************************************)
\* lines 262-299, get_all_tables as one call: the catalog query is run
\* and its lines, or [] when it exited nonzero, are returned
Enumerate ==
    /\ pc = "idle"
    /\ \E ok \in BOOLEAN :
         listed' = Listing(ok, GetAllTables(db, ok))
    /\ LaunchFirst(<< Run(EnumerateCmd, TRUE) >>)
    /\ trip' = IF trip.phase = "restored"
               THEN [trip EXCEPT !.phase = "checked"]
               ELSE [phase |-> "listed", before |-> listed']
    /\ UNCHANGED << op, pc, result, gateVars, fs, db, steps, procVars,
                    csvVars, nameVars, filters, inputDir, pathVars, rows >>

StartBackup ==
    /\ pc = "idle"
    /\ op' = "backup" /\ pc' = "gate"
    /\ trip' = IF trip.phase \in { "listed", "checked" }
               THEN [phase |-> "backing", before |-> listed]
               ELSE NoTrip
    /\ UNCHANGED << result, gateVars, fs, db, steps, procVars, csvVars, nameVars, filters, inputDir, rows >>
    /\ NoProcs
    /\ hadFile' = fs["artifact"].exists /\ ioError' = FALSE
    /\ listed' = NoListing

StartRestore ==
    /\ pc = "idle"
    /\ op' = "restore" /\ pc' = "gate"
    /\ trip' = IF trip.phase = "backed"
               THEN [trip EXCEPT !.phase = "restoring"]
               ELSE NoTrip
    /\ UNCHANGED << result, gateVars, fs, db, steps, procVars, csvVars, nameVars, filters, inputDir, pathVars, rows >>
    /\ NoProcs
    /\ listed' = NoListing

\* lines 139-140 and 207-208: _check_version_compatibility(), called outside
\* any try block of backup / restore
VersionCheck ==
    /\ pc = "gate"
    /\ \E sout \in ServerStdouts, dout \in DumpStdouts :
         LET g == CheckVersionCompatibility(sout, dout) IN
         /\ serverOut' = sout /\ dumpOut' = dout
         /\ Launch(<< Run(ServerVersionCmd, TRUE) >>
                     \o (IF Len(sout) < 2 THEN << >>
                         ELSE << Run(DumpVersionCmd, FALSE) >>))
         /\ IF g = "pass"
            THEN /\ pc' = (IF op = "backup" THEN "dump" ELSE "exists")
                 /\ result' = result
            ELSE Finish(IF g = "fail" THEN "failure" ELSE "raised")
    /\ Step("version_check")
    /\ UNCHANGED << op, fs, db, procVars, csvVars, histVars, nameVars,
                    filters, inputDir, pathVars, rows >>

\* faulty variant: a dump that exits nonzero is launched once more
Dump_Retried ==
    /\ pc = "dump"
    /\ \E schemas \in SchemaFilters, tables \in TableFilters :
         /\ cmd' = DumpCmd(schemas, tables)
         /\ Launch(<< Run(DumpCmd(schemas, tables), TRUE) >>)
    /\ \E code \in { 0, 1 } :
         /\ exitCode' = code
         /\ IF code = 0
            THEN /\ fs' = [fs EXCEPT !["artifact"] = File(DumpOf(db))]
                 /\ pc' = "gzip" /\ result' = result
            ELSE /\ fs' = fs
                 /\ IF Len(steps) < 2
                    THEN pc' = pc /\ result' = result
                    ELSE Finish("failure")
    /\ Step("pg_dump")
    /\ UNCHANGED << op, gateVars, db, stdin, applied, csvVars, histVars,
                    nameVars, filters, inputDir, pathVars, rows >>

\* lines 142-180: pg_dump -f <artifact path>.  Exit 0: the dump lies at
\* the artifact path.  Nonzero exit (or the process not starting): the path
\* is untouched or holds a part of the dump.
Dump ==
    /\ pc = "dump"
    /\ \E schemas \in SchemaFilters, tables \in TableFilters :
         /\ cmd' = DumpCmd(schemas, tables)
         /\ Launch(<< Run(DumpCmd(schemas, tables), TRUE) >>)
    /\ \E code \in { 0, 1 } :
         /\ exitCode' = code
         /\ IF code = 0
            THEN /\ fs' = [fs EXCEPT !["artifact"] = File(DumpOf(db))]
                 /\ pc' = "gzip" /\ result' = result
            ELSE /\ \E f \in { fs["artifact"] }
                         \cup { File(p) : p \in Prefixes(DumpOf(db)) } :
                       fs' = [fs EXCEPT !["artifact"] = f]
                 /\ Finish("failure")
    /\ Step("pg_dump")
    /\ UNCHANGED << op, gateVars, db, stdin, applied, csvVars, histVars,
                    nameVars, filters, inputDir, pathVars, rows >>

\* lines 184-186: the dump is read and written compressed to
\* <artifact path>.gz; an error leaves that file untouched, empty or cut
CompressWrite ==
    /\ pc = "gzip"
    /\ LET raw == fs["artifact"].data IN
       \E ok \in BOOLEAN :
         IF ok
         THEN /\ fs' = [fs EXCEPT !["tmp"] = File(Gzip(raw))]
              /\ pc' = "unlink" /\ result' = result
         ELSE /\ \E f \in { fs["tmp"], File(<< >>), File(<< "H" >> \o raw) } :
                    fs' = [fs EXCEPT !["tmp"] = f]
              /\ Finish("failure")
    /\ Step("compress")
    /\ UNCHANGED << op, gateVars, db, procVars, csvVars, histVars, nameVars,
                    envVars, filters, inputDir, pathVars, rows >>

\* faulty variant: an error of the delete is swallowed and the rename still runs
CompressUnlink_Swallowed ==
    /\ pc = "unlink"
    /\ \E ok \in BOOLEAN :
         /\ fs' = (IF ok THEN [fs EXCEPT !["artifact"] = NoFile] ELSE fs)
         /\ pc' = "rename" /\ result' = result
    /\ Step("unlink")
    /\ UNCHANGED << op, gateVars, db, procVars, csvVars, histVars, nameVars,
                    envVars, filters, inputDir, pathVars, rows >>

\* line 188: backup_file.unlink()
CompressUnlink ==
    /\ pc = "unlink"
    /\ \E ok \in BOOLEAN :
         IF ok
         THEN /\ fs' = [fs EXCEPT !["artifact"] = NoFile]
              /\ pc' = "rename" /\ result' = result
         ELSE /\ fs' = fs
              /\ Finish("failure")
    /\ Step("unlink")
    /\ UNCHANGED << op, gateVars, db, procVars, csvVars, histVars, nameVars,
                    envVars, filters, inputDir, pathVars, rows >>

\* faulty variant: the compressed file is copied to the artifact path and
\* stays at <artifact path>.gz
CompressRename_Copied ==
    /\ pc = "rename"
    /\ \E ok \in BOOLEAN :
         IF ok
         THEN /\ fs' = [fs EXCEPT !["artifact"] = fs["tmp"]]
              /\ pc' = "verify" /\ result' = result
         ELSE /\ fs' = fs
              /\ Finish("failure")
    /\ Step("rename")
    /\ UNCHANGED << op, gateVars, db, procVars, csvVars, histVars, nameVars,
                    envVars, filters, inputDir, pathVars, rows >>

\* line 190: Path(f"{backup_file}.gz").rename(backup_file)
CompressRename ==
    /\ pc = "rename"
    /\ \E ok \in BOOLEAN :
         IF ok
         THEN /\ fs' = [fs EXCEPT !["artifact"] = fs["tmp"], !["tmp"] = NoFile]
              /\ pc' = "verify" /\ result' = result
         ELSE /\ fs' = fs
              /\ Finish("failure")
    /\ Step("rename")
    /\ UNCHANGED << op, gateVars, db, procVars, csvVars, histVars, nameVars,
                    envVars, filters, inputDir, pathVars, rows >>

\* faulty variant: the result of the verification is taken the wrong way round
Verify_Negated ==
    /\ pc = "verify" /\ op = "backup"
    /\ \E ioOk \in BOOLEAN :
         /\ Finish(IF ioOk /\ ~VerifyBackupFile(fs["artifact"])
                   THEN "success" ELSE "failure")
         /\ ioError' = ~ioOk
    /\ Step("verify")
    /\ UNCHANGED << op, gateVars, fs, db, procVars, csvVars, histVars,
                    nameVars, envVars, filters, inputDir, rows >>
    /\ UNCHANGED hadFile

\* lines 195-199: _verify_backup_file(backup_file); an I/O error while
\* opening or reading is caught by the method and gives False
Verify ==
    /\ pc = "verify" /\ op = "backup"
    /\ \E ioOk \in BOOLEAN :
         /\ Finish(IF ioOk /\ VerifyBackupFile(fs["artifact"])
                   THEN "success" ELSE "failure")
         /\ ioError' = ~ioOk
    /\ Step("verify")
    /\ UNCHANGED << op, gateVars, fs, db, procVars, csvVars, histVars,
                    nameVars, envVars, filters, inputDir, rows >>
    /\ UNCHANGED hadFile

\* lines 210-213
RestoreExists ==
    /\ pc = "exists"
    /\ IF fs["artifact"].exists
       THEN pc' = "apply" /\ result' = result
       ELSE Finish("failure")
    /\ Step("exists")
    /\ UNCHANGED << op, gateVars, fs, db, procVars, csvVars, histVars,
                    nameVars, envVars, filters, inputDir, pathVars, rows >>

\* lines 235-260: the artifact is decompressed in full, then psql is run
\* with the content on stdin; a decompression error is raised before the
\* process is started and is caught (False).  connOk = FALSE: psql cannot
\* connect and exits 2 without reading the script.
RestoreApply ==
    /\ pc = "apply"
    /\ LET z == GzipReadAll(fs["artifact"].data) IN
       IF ~z.ok
       THEN /\ Finish("failure")
            /\ UNCHANGED << db, procVars, envVars >>
       ELSE \E schemas \in SchemaFilters, tables \in TableFilters,
               connOk \in BOOLEAN :
              LET c == RestoreCmd(schemas, tables)
                  r == IF connOk
                       THEN PsqlRun(z.out, db, << >>, OnErrorStop(c))
                       ELSE [db |-> db, applied |-> << >>, exit |-> 2]
              IN /\ cmd' = c /\ stdin' = z.out
                 /\ Launch(<< Run(c, TRUE) >>)
                 /\ db' = r.db /\ applied' = r.applied /\ exitCode' = r.exit
                 /\ Finish(IF r.exit # 0 THEN "failure" ELSE "success")
    /\ Step("apply")
    /\ UNCHANGED << op, gateVars, fs, csvVars, histVars, nameVars, filters,
                    inputDir, pathVars, rows >>

\* the caller has the result; the next call starts afresh
Return ==
    /\ pc = "done" /\ op \in { "backup", "restore" }
    /\ op' = "none" /\ pc' = "idle" /\ result' = "none"
    /\ serverOut' = << >> /\ dumpOut' = << >>
    /\ steps' = << >> /\ cmd' = << >> /\ exitCode' = -1
    /\ stdin' = << >> /\ applied' = << >>
    /\ trip' = IF trip.phase = "backing" /\ result = "success"
               THEN [trip EXCEPT !.phase = "backed"]
               ELSE IF trip.phase = "restoring"
                    THEN [trip EXCEPT !.phase = "restored"]
                    ELSE NoTrip
    /\ UNCHANGED << fs, db, csvVars, listed, nameVars, filters, inputDir,
                    rows >>
    /\ NoProcs
    /\ hadFile' = FALSE /\ ioError' = FALSE

Next ==
    \/ Enumerate
    \/ StartBackup \/ StartRestore \/ VersionCheck
    \/ Dump \/ CompressWrite \/ CompressUnlink \/ CompressRename \/ Verify
    \/ RestoreExists \/ RestoreApply
    \/ Return

Spec == Init /\ [][Next]_vars

(***************************************************************************)
(* Vocabulary of the properties.                                           *)
(***************************************************************************)
\* the gate of the current invocation has run (its inputs are recorded)
GateRan == steps # << >>

\* a version string is missing: too few tokens on either stdout
VersionMissing == Len(serverOut) < 2 \/ Len(dumpOut) < 3

\* both leading majors are integers
MajorsParsed ==
    /\ ~VersionMissing
    /\ IsInt(Head(serverOut[2])) /\ IsInt(Head(dumpOut[3]))

ServerMajor == Head(serverOut[2]).digits
ToolMajor == Head(dumpOut[3]).digits

\* the dump step / the apply step has been entered
DumpLaunched == \E i \in 1..Len(steps) : steps[i] = "pg_dump"
ApplyEntered == \E i \in 1..Len(steps) : steps[i] = "apply"

\* the restore executor process has been started
ExecutorLaunched == op = "restore" /\ cmd # << >>

IsPrefix(s, t) == Len(s) <= Len(t) /\ s = SubSeq(t, 1, Len(s))

BackupSteps ==
    << "version_check", "pg_dump", "compress", "unlink", "rename", "verify" >>
RestoreSteps == << "version_check", "exists", "apply" >>

(***************************************************************************)
(* C1.  With integer majors S (server) and T (dump tool), backup and       *)
(* restore pass the version gate iff T >= S.  For T < S the call returns   *)
(* failure, neither the dump nor the restore executor is launched and the  *)
(* files are left as they were; for T >= S the call goes on to its next    *)
(* step (the dump for backup, the existence check for restore).            *)
(***************************************************************************)
C1_GateState ==
    (GateRan /\ MajorsParsed) =>
        IF ToolMajor < ServerMajor
        THEN /\ result = "failure" /\ pc = "done"
             /\ steps = << "version_check" >>
             /\ cmd = << >> /\ exitCode = -1
        ELSE \/ pc = (IF op = "backup" THEN "dump" ELSE "exists")
                  /\ result = "none"
             \/ Len(steps) > 1

C1_GateStep ==
    (pc = "gate" /\ pc' = "done") => (fs' = fs /\ db' = db)

C1_VersionGate == [] C1_GateState /\ [][C1_GateStep]_vars

\* backup was blocked by a dump tool older than the server
C1_Witness ==
    /\ op = "backup" /\ GateRan /\ MajorsParsed
    /\ ToolMajor < ServerMajor /\ result = "failure"

(***************************************************************************)
(* C2.  When a version string is missing or its major is not an integer,   *)
(* backup and restore return False and launch neither the dump nor the     *)
(* restore executor.  (Stated as claimed; the code raises ValueError for a *)
(* major such as "16beta1".)                                               *)
(***************************************************************************)
C2_UnparseableIsFailure ==
    (GateRan /\ ~MajorsParsed) =>
        /\ result = "failure" /\ pc = "done"
        /\ steps = << "version_check" >>
        /\ cmd = << >> /\ exitCode = -1

(***************************************************************************)
(* C3.  backup reports success only after gate, dump (exit 0), compression *)
(* and verification all passed, in this order; a failure at any step ends  *)
(* the call with a failure result (False) and no later step runs.          *)
(* (Stated as claimed; it fails only where C2 fails: the gate raising.)    *)
(***************************************************************************)
C3_BackupSequence ==
    (op = "backup") =>
        /\ IsPrefix(steps, BackupSteps)
        /\ (result = "success") =>
              /\ steps = BackupSteps
              /\ MajorsParsed /\ ToolMajor >= ServerMajor
              /\ exitCode = 0
              /\ VerifyBackupFile(fs["artifact"])
        /\ (pc = "done" /\ steps # BackupSteps) => result = "failure"
        /\ (pc = "done") => result \in { "success", "failure" }

\* the same with the gate's raise counted apart: what the code does
C3_BackupSequenceButRaise ==
    (op = "backup") =>
        /\ IsPrefix(steps, BackupSteps)
        /\ (result = "success") =>
              /\ steps = BackupSteps
              /\ MajorsParsed /\ ToolMajor >= ServerMajor
              /\ exitCode = 0
              /\ VerifyBackupFile(fs["artifact"])
        /\ (pc = "done" /\ steps # BackupSteps /\ result # "failure") =>
              (result = "raised" /\ steps = << "version_check" >>
                 /\ ~MajorsParsed)
        /\ (pc = "done" /\ result = "raised") => steps = << "version_check" >>

(***************************************************************************)
(* C4.  Compression writes the compressed data to <artifact path>.gz,      *)
(* then deletes the uncompressed dump, then renames the compressed file to *)
(* the artifact path; a failure at any of the three steps makes backup     *)
(* return failure.                                                         *)
(***************************************************************************)
DumpProduced == op = "backup" /\ DumpLaunched /\ exitCode = 0

LastStep == steps[Len(steps)]

C4_CompressOrder ==
    (op = "backup") =>
        /\ IsPrefix(steps, BackupSteps)
        /\ (pc = "unlink") =>
              /\ fs["artifact"] = File(DumpOf(db))
              /\ fs["tmp"] = File(Gzip(DumpOf(db)))
        /\ (pc = "rename") =>
              /\ ~fs["artifact"].exists
              /\ fs["tmp"] = File(Gzip(DumpOf(db)))
        /\ (pc = "verify") =>
              /\ fs["artifact"] = File(Gzip(DumpOf(db)))
              /\ ~fs["tmp"].exists
        /\ (pc = "done" /\ steps # << >>
              /\ LastStep \in { "compress", "unlink", "rename" }) =>
              result = "failure"

\* C4 as claimed: ... and the replacement is atomic, the artifact path
\* holds a file in every state from the dump's output to backup's return
C4_AtomicReplace ==
    /\ C4_CompressOrder
    /\ DumpProduced => fs["artifact"].exists

\* C4 as amended: the artifact path holds no file exactly from the delete
\* until the rename has succeeded (for good when the rename fails)
C4_NonAtomicReplace ==
    /\ C4_CompressOrder
    /\ DumpProduced =>
          (~fs["artifact"].exists <=>
              \/ pc = "rename"
              \/ pc = "done" /\ LastStep = "rename")

\* the window: the dump is deleted and the compressed file not yet renamed
C4_Witness ==
    /\ DumpProduced /\ pc = "rename"
    /\ ~fs["artifact"].exists /\ fs["tmp"].exists

(***************************************************************************)
(* C6.  restore runs the gate, then checks that the artifact exists, then  *)
(* decompresses it and feeds it to the executor on stdin; it returns       *)
(* failure without launching the executor when the gate fails or the       *)
(* artifact is missing; once the executor is launched, restore returns     *)
(* success iff the executor exits 0.                                       *)
(* (Stated as claimed; it fails only where C2 fails: the gate raising.)    *)
(***************************************************************************)
GatePassed == GateRan /\ MajorsParsed /\ ToolMajor >= ServerMajor

C6_RestoreSequence ==
    (op = "restore") =>
        /\ IsPrefix(steps, RestoreSteps)
        /\ (GateRan /\ ~GatePassed) =>
              /\ result = "failure" /\ ~ExecutorLaunched
              /\ steps = << "version_check" >>
        /\ (pc = "done" /\ steps = << "version_check", "exists" >>) =>
              /\ result = "failure" /\ ~ExecutorLaunched
              /\ ~fs["artifact"].exists
        /\ ExecutorLaunched =>
              /\ steps = RestoreSteps /\ GatePassed /\ fs["artifact"].exists
              /\ GzipReadAll(fs["artifact"].data).ok
              /\ stdin = GzipReadAll(fs["artifact"].data).out
              /\ result \in { "success", "failure" }
              /\ (result = "success" <=> exitCode = 0)

\* the same with the gate's raise counted apart: what the code does
C6_RestoreSequenceButRaise ==
    (op = "restore") =>
        /\ IsPrefix(steps, RestoreSteps)
        /\ (GateRan /\ ~GatePassed) =>
              /\ result = (IF VersionMissing \/ MajorsParsed
                           THEN "failure" ELSE "raised")
              /\ ~ExecutorLaunched
              /\ steps = << "version_check" >>
        /\ (pc = "done" /\ steps = << "version_check", "exists" >>) =>
              /\ result = "failure" /\ ~ExecutorLaunched
              /\ ~fs["artifact"].exists
        /\ ExecutorLaunched =>
              /\ steps = RestoreSteps /\ GatePassed /\ fs["artifact"].exists
              /\ GzipReadAll(fs["artifact"].data).ok
              /\ stdin = GzipReadAll(fs["artifact"].data).out
              /\ result \in { "success", "failure" }
              /\ (result = "success" <=> exitCode = 0)

(***************************************************************************)
(* C7.  Every restore launches the executor with ON_ERROR_STOP set, and    *)
(* when a statement of the stream errors the run stops there and restore   *)
(* returns failure: what was applied is the stream up to the failing       *)
(* statement, nothing after it, and the result is never success.           *)
(***************************************************************************)
\* psql connected and read the script
ScriptRan == ExecutorLaunched /\ exitCode # 2

C7_StopOnFirstError ==
    /\ ExecutorLaunched => OnErrorStop(cmd)
    /\ ScriptRan =>
          /\ IsPrefix(applied, stdin)
          /\ (Len(applied) < Len(stdin)) =>
                (result = "failure" /\ exitCode = 3)
          /\ (result = "success") => applied = stdin

\* a statement errored with another one after it in the stream
C7_Witness ==
    /\ ScriptRan /\ exitCode = 3 /\ result = "failure"
    /\ Len(applied) + 1 < Len(stdin)

(***************************************************************************)
(* _verify_backup_file on its own: the path holds any file of the bounded  *)
(* alphabet (or none) and the method is called once.                       *)
(***************************************************************************)
AllFiles ==
    { NoFile } \cup { File(d) : d \in SeqsUpTo(Tokens, MaxStmts + 2) }

InitVerify ==
    /\ op = "verify" /\ pc = "verify" /\ result = "none"
    /\ serverOut = << >> /\ dumpOut = << >>
    /\ steps = << >> /\ cmd = << >> /\ exitCode = -1
    /\ stdin = << >> /\ applied = << >>
    /\ NoBatch
    /\ NoHistory
    /\ NoNames
    /\ NoEnv
    /\ NoInputDir
    /\ NoBackup
    /\ NoImport
    /\ NoFilters
    /\ fs \in [Paths -> AllFiles]
    /\ fs["tmp"] = NoFile
    /\ db = { }

VerifyCall ==
    /\ pc = "verify" /\ op = "verify"
    /\ Finish(IF VerifyBackupFile(fs["artifact"]) THEN "success" ELSE "failure")
    /\ Step("verify")
    /\ UNCHANGED << op, gateVars, fs, db, procVars, csvVars, histVars,
                    nameVars, envVars, filters, inputDir, pathVars, rows >>

SpecVerify == InitVerify /\ [][VerifyCall]_vars

(***************************************************************************)
(* C5.  Artifact verification fails for a path that does not exist, for a  *)
(* zero-byte file and for a non-empty file that does not start with a gzip *)
(* header; it succeeds for every genuine gzip stream, also one whose       *)
(* decompressed content is empty.                                          *)
(***************************************************************************)
\* one complete gzip member: header, deflate blocks, trailer
IsMember(d) ==
    /\ Len(d) >= 2 /\ d[1] = "H" /\ d[Len(d)] = "T"
    /\ \A i \in 2..(Len(d) - 1) : d[i] \in Stmts

\* a genuine gzip stream: one member or several, one after the other
RECURSIVE IsGzipStream(_)
IsGzipStream(d) ==
    \/ IsMember(d)
    \/ \E k \in 2..(Len(d) - 2) :
         IsMember(SubSeq(d, 1, k)) /\ IsGzipStream(SubSeq(d, k + 1, Len(d)))

C5_Verification ==
    (op = "verify" /\ pc = "done") =>
        LET f == fs["artifact"] IN
        /\ ~f.exists => result = "failure"
        /\ (f.exists /\ f.data = << >>) => result = "failure"
        /\ (f.exists /\ f.data # << >> /\ f.data[1] # "H") => result = "failure"
        /\ (f.exists /\ IsGzipStream(f.data)) => result = "success"

\* a gzip stream of empty content was verified and accepted
C5_Witness ==
    /\ op = "verify" /\ pc = "done"
    /\ fs["artifact"] = File(Gzip(<< >>)) /\ result = "success"

(***************************************************************************)
(* Table identifiers and file names.  A name is a sequence of symbols:     *)
(* "." is the dot, any other symbol a non-empty run of other characters,   *)
(* so "public.users.csv" is <<"public", ".", "users", ".", "csv">>.        *)
(***************************************************************************)
\* str.split('.'): the parts between the dots, empty parts included
RECURSIVE SplitFrom(_, _, _)
SplitFrom(s, cur, acc) ==
    IF s = << >> THEN Append(acc, cur)
    ELSE IF Head(s) = "."
         THEN SplitFrom(Tail(s), << >>, Append(acc, cur))
         ELSE SplitFrom(Tail(s), Append(cur, Head(s)), acc)

Split(s) == SplitFrom(s, << >>, << >>)

\* f"{schema}.{table_name}"
Join(schema, table) == schema \o << "." >> \o table

LastDot(n) ==
    IF \E i \in 1..Len(n) : n[i] = "."
    THEN CHOOSE i \in 1..Len(n) :
           n[i] = "." /\ \A j \in (i + 1)..Len(n) : n[j] # "."
    ELSE 0

\* faulty variant: the whole file name used in place of its stem
Stem_WholeName(n) == n

\* Path.stem: the name without its last suffix; a dot that starts or ends
\* the name starts no suffix
Stem(n) ==
    IF LastDot(n) > 1 /\ LastDot(n) < Len(n)
    THEN SubSeq(n, 1, LastDot(n) - 1)
    ELSE n

\* table arguments of export_to_csv: public.users, public.orders, users,
\* public.users.x, .users, public.
TableNames ==
    { << "public", ".", "users" >>, << "public", ".", "orders" >>,
      << "users" >>, << "public", ".", "users", ".", "x" >>,
      << ".", "users" >>, << "public", "." >> }

\* file arguments of import_from_csv: public.users.csv, usersdata.csv,
\* public.users.x.csv, .users.csv, public.users (all existing), and a
\* public.orders.csv that does not exist
CsvFile(n, e) == [name |-> n, exists |-> e]

ImportFiles ==
    { CsvFile(<< "public", ".", "users", ".", "csv" >>, TRUE),
      CsvFile(<< "usersdata", ".", "csv" >>, TRUE),
      CsvFile(<< "public", ".", "users", ".", "x", ".", "csv" >>, TRUE),
      CsvFile(<< ".", "users", ".", "csv" >>, TRUE),
      CsvFile(<< "public", ".", "users" >>, TRUE),
      CsvFile(<< "public", ".", "orders", ".", "csv" >>, FALSE) }

\* the input_dir argument: None, a directory that does not exist, or a
\* directory with the *.csv files listed
InputDir(g, e, l) == [given |-> g, exists |-> e, csv |-> l]

InputDirs ==
    { InputDir(FALSE, FALSE, << >>),
      InputDir(TRUE, FALSE, << >>),
      InputDir(TRUE, TRUE, << >>),
      InputDir(TRUE, TRUE,
               << CsvFile(<< "usersdata", ".", "csv" >>, TRUE),
                  CsvFile(<< "public", ".", "users", ".", "csv" >>, TRUE) >>) }

Command(i, k, schema, table, code) ==
    [item |-> i, kind |-> k, schema |-> schema, table |-> table, exit |-> code]

(***************************************************************************)
(* export_to_csv and import_from_csv, one loop iteration per step.  The    *)
(* output directory exists or can be created.                              *)
(***************************************************************************)
InitCsv ==
    /\ Idle
    /\ NoBatch
    /\ NoHistory
    /\ NoNames
    /\ NoEnv
    /\ NoInputDir
    /\ NoBackup
    /\ NoImport
    /\ NoFilters
    /\ fs = [p \in Paths |-> NoFile]
    /\ db \in SUBSET Tables

\* lines 311-325
StartExport ==
    /\ pc = "idle"
    /\ op' = "export"
    /\ \E tables \in SeqsUpTo(TableNames, MaxItems), enumOk \in BOOLEAN :
         LET list == IF tables # << >> THEN tables
                     ELSE GetAllTables(db, enumOk) IN
         /\ items' = list
         /\ LaunchFirst(IF tables # << >> THEN << >>
                        ELSE << Run(EnumerateCmd, TRUE) >>)
         /\ listed' = IF tables # << >> THEN NoListing
                      ELSE Listing(enumOk, list)
         /\ IF list = << >>
            THEN Finish("failure")
            ELSE pc' = "loop" /\ result' = result
    /\ UNCHANGED << gateVars, fs, db, steps, procVars, idx, success,
                    truncate, log, nameVars, filters, inputDir,
                    pathVars, rows >>
    /\ trip' = NoTrip

\* faulty variant: the batch is given up at the first table that fails
ExportItem_Abort ==
    /\ pc = "loop" /\ op = "export" /\ idx < Len(items)
    /\ LET parts == Split(items[idx + 1]) IN
       IF Len(parts) # 2
       THEN /\ success' = FALSE /\ log' = log
            /\ UNCHANGED envVars
            /\ Finish("failure")
       ELSE \E code \in { 0, 1 } :
              /\ log' = Append(log, Command(idx + 1, "copy_to",
                                            parts[1], parts[2], code))
              /\ success' = (success /\ code = 0)
              /\ Launch(<< Run(CopyToCmd(parts[1], parts[2]), TRUE) >>)
              /\ IF code = 0 THEN pc' = pc /\ result' = result
                 ELSE Finish("failure")
    /\ idx' = idx + 1
    /\ UNCHANGED << op, gateVars, fs, db, steps, procVars, items, truncate,
                    histVars, nameVars, filters, inputDir, pathVars, rows >>

\* lines 326-358: one table of the batch; code is the exit code of the
\* copy (nonzero also stands for the process not starting, handled alike)
ExportItem ==
    /\ pc = "loop" /\ op = "export" /\ idx < Len(items)
    /\ LET parts == Split(items[idx + 1]) IN
       IF Len(parts) # 2
       THEN success' = FALSE /\ log' = log /\ UNCHANGED envVars
       ELSE \E code \in { 0, 1 } :
              /\ log' = Append(log, Command(idx + 1, "copy_to",
                                            parts[1], parts[2], code))
              /\ success' = (success /\ code = 0)
              /\ Launch(<< Run(CopyToCmd(parts[1], parts[2]), TRUE) >>)
    /\ idx' = idx + 1
    /\ UNCHANGED << op, pc, result, gateVars, fs, db, steps, procVars,
                    items, truncate, histVars, nameVars, filters, inputDir,
                    pathVars, rows >>

\* faulty variant: a call that finds nothing to import reports success
StartImport_EmptyIsSuccess ==
    /\ pc = "idle"
    /\ op' = "import"
    /\ \E files \in SeqsUpTo(ImportFiles, MaxItems), dir \in InputDirs,
          trunc \in BOOLEAN :
         LET list == IF files # << >> THEN files
                     ELSE IF dir.given /\ dir.exists THEN dir.csv
                     ELSE << >> IN
         /\ truncate' = trunc
         /\ items' = list
         /\ inputDir' = IF files # << >> THEN DirNotUsed
                        ELSE [used |-> TRUE, dir |-> dir]
         /\ IF list = << >>
            THEN Finish("success")
            ELSE pc' = "loop" /\ result' = result
    /\ UNCHANGED << gateVars, fs, db, steps, procVars, idx, success, log, nameVars, filters, pathVars, rows >>
    /\ NoProcs
    /\ trip' = NoTrip
    /\ listed' = NoListing

\* lines 373-388
StartImport ==
    /\ pc = "idle"
    /\ op' = "import"
    /\ \E files \in SeqsUpTo(ImportFiles, MaxItems), dir \in InputDirs,
          trunc \in BOOLEAN :
         LET list == IF files # << >> THEN files
                     ELSE IF dir.given /\ dir.exists THEN dir.csv
                     ELSE << >> IN
         /\ truncate' = trunc
         /\ items' = list
         /\ inputDir' = IF files # << >> THEN DirNotUsed
                        ELSE [used |-> TRUE, dir |-> dir]
         /\ IF list = << >>
            THEN Finish("failure")
            ELSE pc' = "loop" /\ result' = result
    /\ UNCHANGED << gateVars, fs, db, steps, procVars, idx, success, log, nameVars, filters, pathVars, rows >>
    /\ NoProcs
    /\ trip' = NoTrip
    /\ listed' = NoListing

\* the rows after the commands of one file: TRUNCATE TABLE, when it ran
\* and exited 0, leaves the table empty; \COPY ... FROM adds the rows of
\* the file when it exits 0 and adds nothing when it fails
Loaded(r, target, truncated, loaded) ==
    [r EXCEPT ![target] = (IF truncated THEN { } ELSE @)
                            \cup (IF loaded THEN FileRows ELSE { })]

\* faulty variant: the load is issued although the truncate failed
ImportItem_LoadAfterFailedTruncate ==
    /\ pc = "loop" /\ op = "import" /\ idx < Len(items)
    /\ LET f == items[idx + 1]
           parts == Split(Stem(f.name)) IN
       IF ~f.exists \/ Len(parts) # 2
       THEN success' = FALSE /\ log' = log /\ UNCHANGED << envVars, rows >>
       ELSE \E tcode \in { 0, 1 }, lcode \in { 0, 1 } :
              LET trunc == Command(idx + 1, "truncate",
                                   parts[1], parts[2], tcode)
                  load == Command(idx + 1, "copy_from",
                                  parts[1], parts[2], lcode)
                  tcmd == Run(TruncateCmd(parts[1], parts[2]), TRUE)
                  lcmd == Run(CopyFromCmd(parts[1], parts[2], f.name), TRUE)
              IN IF truncate
                 THEN /\ log' = log \o << trunc, load >>
                      /\ success' = (success /\ tcode = 0 /\ lcode = 0)
                      /\ Launch(<< tcmd, lcmd >>)
                      /\ rows' = Loaded(rows, Join(parts[1], parts[2]),
                                       tcode = 0, lcode = 0)
                 ELSE /\ log' = Append(log, load)
                      /\ success' = (success /\ lcode = 0)
                      /\ Launch(<< lcmd >>)
                      /\ rows' = Loaded(rows, Join(parts[1], parts[2]),
                                       FALSE, lcode = 0)
    /\ idx' = idx + 1
    /\ UNCHANGED << op, pc, result, gateVars, fs, db, steps, procVars,
                    items, truncate, histVars, nameVars, filters, inputDir,
                    pathVars >>

\* lines 389-440: one file of the batch
ImportItem ==
    /\ pc = "loop" /\ op = "import" /\ idx < Len(items)
    /\ LET f == items[idx + 1]
           parts == Split(Stem(f.name)) IN
       IF ~f.exists \/ Len(parts) # 2
       THEN success' = FALSE /\ log' = log /\ UNCHANGED << envVars, rows >>
       ELSE \E tcode \in { 0, 1 }, lcode \in { 0, 1 } :
              LET trunc == Command(idx + 1, "truncate",
                                   parts[1], parts[2], tcode)
                  load == Command(idx + 1, "copy_from",
                                  parts[1], parts[2], lcode)
                  tcmd == Run(TruncateCmd(parts[1], parts[2]), TRUE)
                  lcmd == Run(CopyFromCmd(parts[1], parts[2], f.name), TRUE)
              IN IF truncate /\ tcode # 0
                 THEN /\ log' = Append(log, trunc)
                      /\ success' = FALSE
                      /\ Launch(<< tcmd >>)
                      /\ rows' = rows
                 ELSE /\ log' = (IF truncate THEN Append(log, trunc) ELSE log)
                                  \o << load >>
                      /\ success' = (success /\ lcode = 0)
                      /\ Launch((IF truncate THEN << tcmd >> ELSE << >>)
                                  \o << lcmd >>)
                      /\ rows' = Loaded(rows, Join(parts[1], parts[2]),
                                       truncate, lcode = 0)
    /\ idx' = idx + 1
    /\ UNCHANGED << op, pc, result, gateVars, fs, db, steps, procVars,
                    items, truncate, histVars, nameVars, filters, inputDir,
                    pathVars >>

\* lines 360 and 442: return success
BatchReturn ==
    /\ pc = "loop" /\ idx = Len(items)
    /\ Finish(IF success THEN "success" ELSE "failure")
    /\ UNCHANGED << op, gateVars, fs, db, steps, procVars, csvVars,
                    histVars, nameVars, envVars, filters, inputDir,
                    pathVars, rows >>

NextCsv ==
    \/ Enumerate
    \/ StartExport \/ ExportItem
    \/ StartImport \/ ImportItem
    \/ BatchReturn

SpecCsv == InitCsv /\ [][NextCsv]_vars

\* every operation of the class, called one after the other
NextAll == Next \/ NextCsv

SpecAll == InitCsv /\ [][NextAll]_vars

(***************************************************************************)
(* Vocabulary of the batch properties.                                     *)
(***************************************************************************)
DotCount(n) == Cardinality({ j \in 1..Len(n) : n[j] = "." })

\* the commands issued for item i, as indices of the log
CommandsOf(i) == { k \in 1..Len(log) : log[k].item = i }

\* item i has a copy (of the given kind) that exited 0
Copied(i, kind) ==
    \E k \in CommandsOf(i) : log[k].kind = kind /\ log[k].exit = 0

\* the commands of the log are those of ascending items
LogInItemOrder ==
    \A k, l \in 1..Len(log) : k < l => log[k].item <= log[l].item

BatchDone == pc = "done" /\ items # << >>

(***************************************************************************)
(* C8.  For a non-empty list of tables, export attempts the copy of every  *)
(* table whose name holds exactly one '.', exactly once and in list order, *)
(* also after an earlier table failed; a name with no dot or with more     *)
(* than one is a failed table for which no copy is issued; the result is   *)
(* failure iff at least one table of the batch failed.                     *)
(***************************************************************************)
ExportAggregate ==
    (op = "export" /\ BatchDone) =>
        /\ idx = Len(items)
        /\ result \in { "success", "failure" }
        /\ (result = "failure") <=>
              (\E i \in 1..Len(items) : ~Copied(i, "copy_to"))

\* C8 as claimed: a copy is attempted for every table of the list
C8_ExportEveryTable ==
    /\ (op = "export" /\ items # << >>) =>
          /\ Len(log) = idx
          /\ \A k \in 1..Len(log) :
                /\ log[k].item = k /\ log[k].kind = "copy_to"
                /\ Join(log[k].schema, log[k].table) = items[k]
    /\ ExportAggregate

\* C8 as amended
C8_ExportEveryWellFormedTable ==
    /\ (op = "export" /\ items # << >>) =>
          /\ \A i \in 1..idx :
                Cardinality(CommandsOf(i))
                  = (IF DotCount(items[i]) = 1 THEN 1 ELSE 0)
          /\ \A k \in 1..Len(log) :
                /\ log[k].item \in 1..idx /\ log[k].kind = "copy_to"
                /\ Join(log[k].schema, log[k].table) = items[log[k].item]
          /\ LogInItemOrder
    /\ ExportAggregate

\* three tables, only the second copy fails: the third is still exported
C8_Witness ==
    /\ op = "export" /\ pc = "done" /\ Len(items) = 3 /\ Len(log) = 3
    /\ log[1].exit = 0 /\ log[2].exit # 0 /\ log[3].exit = 0
    /\ result = "failure"

(***************************************************************************)
(* C9.  import derives the target from the file name: an existing file     *)
(* schema.table.csv gets its commands issued against table 'table' of      *)
(* schema 'schema'; a file whose stem has no dot or more than one is a     *)
(* failed file with neither truncate nor load; every file of the batch is  *)
(* processed and the result is failure iff at least one file failed.       *)
(***************************************************************************)
\* the name is <schema>.<table>.csv
SchemaTableCsv(n) ==
    /\ Len(n) = 5 /\ n[2] = "." /\ n[4] = "." /\ n[5] = "csv"
    /\ n[1] # "." /\ n[3] # "."

C9_ImportTargets ==
    /\ (op = "import" /\ items # << >>) =>
          /\ \A i \in 1..idx :
                LET n == items[i].name IN
                /\ (items[i].exists /\ SchemaTableCsv(n)) =>
                      /\ CommandsOf(i) # { }
                      /\ \A k \in CommandsOf(i) :
                            /\ log[k].schema = << n[1] >>
                            /\ log[k].table = << n[3] >>
                /\ (DotCount(Stem(n)) # 1) =>
                      (CommandsOf(i) = { } /\ ~success)
          /\ \A k \in 1..Len(log) : log[k].item \in 1..idx
          /\ LogInItemOrder
    /\ (op = "import" /\ BatchDone) =>
          /\ idx = Len(items)
          /\ result \in { "success", "failure" }
          /\ (result = "failure") <=>
                (\E i \in 1..Len(items) : ~Copied(i, "copy_from"))

\* usersdata.csv failed, and public.users.csv after it was loaded into
\* public.users
C9_Witness ==
    /\ op = "import" /\ pc = "done" /\ Len(items) = 2 /\ Len(log) = 1
    /\ items[1].name = << "usersdata", ".", "csv" >>
    /\ items[2].name = << "public", ".", "users", ".", "csv" >>
    /\ log[1] = Command(2, "copy_from", << "public" >>, << "users" >>, 0)
    /\ result = "failure"

(***************************************************************************)
(* C10.  With truncation requested, the truncate of a file's table is      *)
(* issued right before the file's load; when it exits nonzero the load is  *)
(* not issued, the file is failed and the batch goes on with the next      *)
(* file.  Without truncation requested no truncate is issued.              *)
(***************************************************************************)
C10_TruncateBeforeLoad ==
    (op = "import") =>
        /\ ~truncate => \A k \in 1..Len(log) : log[k].kind = "copy_from"
        /\ truncate =>
              \A k \in 1..Len(log) :
                 (log[k].kind = "copy_from") =>
                    /\ k > 1
                    /\ log[k - 1] = Command(log[k].item, "truncate",
                                            log[k].schema, log[k].table, 0)
        /\ \A k \in 1..Len(log) :
              (log[k].kind = "truncate" /\ log[k].exit # 0) =>
                 /\ \A l \in CommandsOf(log[k].item) : l = k
                 /\ ~success
                 /\ (pc = "done") => (result = "failure" /\ idx = Len(items))

\* the first file's truncate failed and the second file was still loaded
C10_Witness ==
    /\ op = "import" /\ pc = "done" /\ truncate /\ Len(log) = 3
    /\ log[1].kind = "truncate" /\ log[1].exit # 0 /\ log[1].item = 1
    /\ log[2].kind = "truncate" /\ log[2].exit = 0 /\ log[2].item = 2
    /\ log[3].kind = "copy_from" /\ log[3].item = 2

(***************************************************************************)
(* C11.  Export and import act on an identifier (the table argument, the   *)
(* stem of the file name) only if its split on '.' gives exactly two       *)
(* non-empty parts; for every other form no copy or truncate is issued for *)
(* the item, the item is failed and the batch goes on.                     *)
(***************************************************************************)
\* the identifier of item i of the batch
Identifier(i) ==
    IF op = "export" THEN items[i] ELSE Stem(items[i].name)

\* exactly two parts, neither empty
TwoNonEmptyParts(n) ==
    /\ Len(Split(n)) = 2
    /\ Split(n)[1] # << >> /\ Split(n)[2] # << >>

C11_OnlyTwoNonEmptyParts ==
    (op \in { "export", "import" } /\ items # << >>) =>
        /\ \A i \in 1..idx :
              ~TwoNonEmptyParts(Identifier(i)) =>
                  (CommandsOf(i) = { } /\ ~success)
        /\ (pc = "done") => idx = Len(items)

\* the same for the forms that split into one part or into more than two
C11_NotTwoParts ==
    (op \in { "export", "import" } /\ items # << >>) =>
        /\ \A i \in 1..idx :
              Len(Split(Identifier(i))) # 2 =>
                  (CommandsOf(i) = { } /\ ~success)
        /\ (pc = "done") => idx = Len(items)

(***************************************************************************)
(* C12.  Round trip.  get_all_tables, then a backup that returns success,  *)
(* then restore of the artifact it produced, then get_all_tables: the      *)
(* second call returns the same set of names as the first.  In this model  *)
(* restore is the only thing that changes the database, so no other actor  *)
(* changes it between the calls.                                           *)
(***************************************************************************)
NameSet(l) == { l[i] : i \in 1..Len(l) }

\* the four calls have been made, in this order and with nothing between
RoundTripDone == trip.phase = "checked"

Times(name) == Cardinality({ i \in 1..Len(steps) : steps[i] = name })

KindsOf(i, kind) == { k \in CommandsOf(i) : log[k].kind = kind }

C13_AtMostOnce ==
    /\ (op = "backup") => Times("pg_dump") <= 1
    /\ (op = "restore") => Times("apply") <= 1
    /\ (op \in { "export", "import" }) =>
          \A i \in 1..Len(items) :
             \A kind \in { "copy_to", "copy_from", "truncate" } :
                Cardinality(KindsOf(i, kind)) <= 1

\* a step of the current backup or restore has failed
StepFailed ==
    op \in { "backup", "restore" } /\ result \in { "failure", "raised" }

C13_FailureIsTerminal ==
    StepFailed => (op' = "none" /\ steps' = << >> /\ cmd' = << >>)

C13_NoRetry == [] C13_AtMostOnce /\ [][C13_FailureIsTerminal]_vars

\* the dump of a backup has exited nonzero
C13_Witness ==
    /\ op = "backup" /\ result = "failure"
    /\ LastStep = "pg_dump" /\ exitCode # 0 /\ Times("pg_dump") = 1

(***************************************************************************)
(* _get_backup_filename on its own.  Instants are counted in half seconds  *)
(* from 00:00:00 UTC of day 0; datetime.now() is the naive local time, the *)
(* instant shifted by the UTC offset the time zone has at that instant.    *)
(***************************************************************************)
HalfSeconds(h, m, s) == 2 * ((h * 60 + m) * 60 + s)

\* 00:30:00.0, .5, 00:30:01.0, .5, 00:59:59.5, 01:30:00.0, .5, 01:30:01.5
\* and 21:59:59.5 UTC
Instants ==
    { HalfSeconds(0, 30, 0), HalfSeconds(0, 30, 0) + 1,
      HalfSeconds(0, 30, 1), HalfSeconds(0, 30, 1) + 1,
      HalfSeconds(0, 59, 59) + 1,
      HalfSeconds(1, 30, 0), HalfSeconds(1, 30, 0) + 1,
      HalfSeconds(1, 30, 1) + 1,
      HalfSeconds(21, 59, 59) + 1 }

\* time zones: a fixed offset; summer time that ends at 01:00 UTC (the
\* local clock goes back from 03:00 to 02:00); summer time that starts then
Zones == { "fixed", "fall_back", "spring_forward" }

\* the UTC offset of the zone at instant t, in seconds
UtcOffset(zone, t) ==
    IF zone = "fixed" THEN 7200
    ELSE IF zone = "fall_back"
         THEN (IF t < HalfSeconds(1, 0, 0) THEN 7200 ELSE 3600)
         ELSE (IF t < HalfSeconds(1, 0, 0) THEN 3600 ELSE 7200)

\* datetime.now(), the fraction of the second left out
LocalSeconds(zone, t) == (t \div 2) + UtcOffset(zone, t)

\* strftime("%Y%m%d_%H%M%S"): the date (as the number of the day), "_",
\* hour, minute, second
Timestamp(sec) ==
    << sec \div 86400, "_", (sec \div 3600) % 24, (sec \div 60) % 60,
       sec % 60 >>

\* lines 113-116
GetBackupFilename(prefix, zone, t) ==
    << prefix, "_" >> \o Timestamp(LocalSeconds(zone, t)) \o << ".sql.gz" >>

NamePrefixes == { "backup", "daily" }

NameCall(prefix, zone, t) == [prefix |-> prefix, zone |-> zone, at |-> t]

\* two calls in one process (one time zone), the second not before the first
InitName ==
    /\ op = "filename" /\ pc = "filename" /\ result = "none"
    /\ serverOut = << >> /\ dumpOut = << >>
    /\ steps = << >> /\ cmd = << >> /\ exitCode = -1
    /\ stdin = << >> /\ applied = << >>
    /\ NoBatch
    /\ NoHistory
    /\ NoEnv
    /\ NoInputDir
    /\ NoBackup
    /\ NoImport
    /\ NoFilters
    /\ fs = [p \in Paths |-> NoFile]
    /\ db = { }
    /\ names = << >>
    /\ \E zone \in Zones, p1 \in NamePrefixes, p2 \in NamePrefixes,
          t1 \in Instants, t2 \in Instants :
         /\ t1 <= t2
         /\ calls = << NameCall(p1, zone, t1), NameCall(p2, zone, t2) >>

GetBackupFilenameCall ==
    /\ pc = "filename" /\ Len(names) < Len(calls)
    /\ LET c == calls[Len(names) + 1] IN
       names' = Append(names, GetBackupFilename(c.prefix, c.zone, c.at))
    /\ UNCHANGED << op, pc, result, gateVars, fs, db, steps, procVars,
                    csvVars, histVars, calls, envVars, filters, inputDir,
                    pathVars, rows >>

SpecName == InitName /\ [][GetBackupFilenameCall]_vars

(***************************************************************************)
(* C14.  The name is <prefix>_<YYYYMMDD_HHMMSS>.sql.gz, the timestamp      *)
(* being the local time of the call cut to the second; two names made with *)
(* the same prefix more than one second apart are distinct.                *)
(***************************************************************************)
\* name i is <prefix>_<date>_<hour><minute><second>.sql.gz of the local
\* second of call i
NameForm(i) ==
    LET n == names[i]
        c == calls[i]
    IN /\ Len(n) = 8
       /\ n[1] = c.prefix /\ n[2] = "_" /\ n[4] = "_" /\ n[8] = ".sql.gz"
       /\ n[3] \in Nat /\ n[5] \in 0..23 /\ n[6] \in 0..59 /\ n[7] \in 0..59
       /\ ((n[3] * 24 + n[5]) * 60 + n[6]) * 60 + n[7]
            = LocalSeconds(c.zone, c.at)

\* calls i and j have the same prefix and are more than one second apart
ApartSamePrefix(i, j) ==
    /\ i < j /\ j <= Len(names)
    /\ calls[i].prefix = calls[j].prefix
    /\ calls[j].at - calls[i].at > 2

\* the local clock was not set back between calls i and j
ClockNotSetBack(i, j) ==
    UtcOffset(calls[j].zone, calls[j].at)
      >= UtcOffset(calls[i].zone, calls[i].at)

\* C14 as claimed
C14_DistinctNames ==
    /\ \A i \in 1..Len(names) : NameForm(i)
    /\ \A i, j \in 1..Len(names) :
          ApartSamePrefix(i, j) => names[i] # names[j]

\* the same for two calls between which the local clock was not set back
\* (no end of summer time between them)
C14_DistinctNamesForwardClock ==
    /\ \A i \in 1..Len(names) : NameForm(i)
    /\ \A i, j \in 1..Len(names) :
          (ApartSamePrefix(i, j) /\ ClockNotSetBack(i, j)) =>
              names[i] # names[j]

(***************************************************************************)
(* C15.  The password is handed to a child process only as the PGPASSWORD  *)
(* entry of a copy of the environment made for the launch: the             *)
(* orchestrator's own environment is never modified, no command line holds *)
(* the password and no file written holds it.                              *)
(***************************************************************************)
Elements(q) == { q[i] : i \in 1..Len(q) }

\* the command line connects to the server
Connects(argv) == argv # DumpVersionCmd

C15_PasswordOnlyInChildEnv ==
    /\ environ = OsEnviron
    /\ \A i \in 1..Len(procs) :
          /\ Password \notin Elements(procs[i].argv)
          /\ procs[i].env
               \in { environ, SetEnv(environ, "PGPASSWORD", Password) }
          /\ Connects(procs[i].argv) =>
                << "PGPASSWORD", Password >> \in procs[i].env
    /\ \A p \in Paths : Password \notin Elements(fs[p].data)

\* a restore that has launched the gate's two processes and the executor
C15_Witness ==
    /\ op = "restore" /\ Len(procs) = 3
    /\ procs[3].argv = cmd /\ cmd # << >>
    /\ << "PGPASSWORD", Password >> \in procs[3].env
    /\ << "PGPASSWORD", Password >> \notin environ

(***************************************************************************)
(* Command construction on its own: backup and restore are given any lists *)
(* of schemas and tables of the bounded length and build their command.    *)
(***************************************************************************)
MaxFilters == 2

SchemaNames == { "public", "audit" }
QualifiedNames == { "public.users", "audit.log" }

InitCmd ==
    /\ op \in { "backup", "restore" }
    /\ pc = "build" /\ result = "none"
    /\ serverOut = << >> /\ dumpOut = << >>
    /\ steps = << >> /\ cmd = << >> /\ exitCode = -1
    /\ stdin = << >> /\ applied = << >>
    /\ NoBatch
    /\ NoHistory
    /\ NoNames
    /\ NoEnv
    /\ NoInputDir
    /\ NoBackup
    /\ NoImport
    /\ fs = [p \in Paths |-> NoFile]
    /\ db = { }
    /\ \E schemas \in SeqsUpTo(SchemaNames, MaxFilters),
          tables \in SeqsUpTo(QualifiedNames, MaxFilters) :
         filters = [schemas |-> schemas, tables |-> tables]

\* lines 144-163 and 216-233
BuildCmd ==
    /\ pc = "build"
    /\ cmd' = IF op = "backup"
              THEN DumpCmd(filters.schemas, filters.tables)
              ELSE RestoreCmd(filters.schemas, filters.tables)
    /\ pc' = "built"
    /\ UNCHANGED << op, result, gateVars, fs, db, steps, exitCode, stdin,
                    applied, csvVars, histVars, nameVars, envVars, filters,
                    inputDir, pathVars, rows >>

SpecCmd == InitCmd /\ [][BuildCmd]_vars

(***************************************************************************)
(* C16.  The dump command carries one schema selector (-n) per requested   *)
(* schema and one table selector (-t) per requested table, each with its   *)
(* own flag and in the order given, and none when no filter is given; the  *)
(* restore command carries its filters as the same flags.                  *)
(***************************************************************************)
\* the arguments of the command that precede the selectors
FixedArgs ==
    IF op = "backup"
    THEN << "pg_dump", "-h", "DB_HOST", "-p", "DB_PORT", "-U", "DB_USER",
            "-d", "DB_NAME", "-F", "p", "-f", "backup_file" >>
    ELSE << "psql", "-h", "DB_HOST", "-p", "DB_PORT", "-U", "DB_USER",
            "-d", "DB_NAME", "-v", "ON_ERROR_STOP=1" >>

Selectors == SubSeq(cmd, Len(FixedArgs) + 1, Len(cmd))

C16_Selectors ==
    (pc = "built") =>
        LET ns == Len(filters.schemas)
            nt == Len(filters.tables)
        IN /\ SubSeq(cmd, 1, Len(FixedArgs)) = FixedArgs
           /\ Len(Selectors) = 2 * (ns + nt)
           /\ \A i \in 1..ns :
                 /\ Selectors[2 * i - 1] = "-n"
                 /\ Selectors[2 * i] = filters.schemas[i]
           /\ \A j \in 1..nt :
                 /\ Selectors[2 * ns + 2 * j - 1] = "-t"
                 /\ Selectors[2 * ns + 2 * j] = filters.tables[j]

\* restore built with two schemas and two tables
C16_Witness ==
    /\ pc = "built" /\ op = "restore"
    /\ Len(filters.schemas) = 2 /\ Len(filters.tables) = 2
    /\ filters.schemas[1] # filters.schemas[2]
    /\ Len(cmd) = Len(FixedArgs) + 8

(***************************************************************************)
(* C17.  get_all_tables returns the empty list, and no error, when the     *)
(* database holds no user table and when its query exits nonzero; and      *)
(* export_to_csv called without tables returns failure, with no copy       *)
(* issued, whenever that enumeration returned the empty list.              *)
(***************************************************************************)
\* the current call has run the enumeration query first: a get_all_tables
\* call, or an export_to_csv call without tables
Enumerated == procs # << >> /\ procs[1].argv = EnumerateCmd

C17_EmptyEnumeration ==
    /\ (Enumerated /\ (db = { } \/ ~listed.ok)) =>
          /\ listed.tables = << >>
          /\ op = "none" => result = "none"
    /\ (op = "export" /\ Enumerated /\ listed.tables = << >>) =>
          /\ pc = "done" /\ result = "failure"
          /\ log = << >> /\ Len(procs) = 1
    /\ (op = "export" /\ Enumerated /\ listed.tables # << >>) =>
          items = listed.tables

\* export without tables whose enumeration query failed while the database
\* holds tables
C17_Witness ==
    /\ op = "export" /\ Enumerated /\ ~listed.ok /\ db # { }
    /\ result = "failure"

(***************************************************************************)
(* C18.  import_from_csv given no file list returns failure, with no       *)
(* process launched, when no input directory is given either, when the     *)
(* directory does not exist and when it holds no *.csv file.  A listed     *)
(* file that does not exist is a failed file with neither truncate nor     *)
(* load, and the files after it are still processed.                       *)
(***************************************************************************)
\* the call was given no file list and finds nothing to import
NothingToImport ==
    /\ op = "import" /\ inputDir.used
    /\ \/ ~inputDir.dir.given
       \/ ~inputDir.dir.exists
       \/ inputDir.dir.csv = << >>

C18_ImportPreconditions ==
    /\ NothingToImport =>
          /\ pc = "done" /\ result = "failure"
          /\ procs = << >> /\ log = << >> /\ idx = 0
    /\ (op = "import" /\ inputDir.used /\ ~NothingToImport) =>
          items = inputDir.dir.csv
    /\ (op = "import") =>
          /\ \A i \in 1..idx :
                ~items[i].exists => (CommandsOf(i) = { } /\ ~success)
          /\ Len(procs) = Len(log)
          /\ (pc = "done" /\ items # << >>) =>
                (idx = Len(items) /\ result \in { "success", "failure" })

\* a file list whose first file is missing and whose second is loaded
C18_Witness ==
    /\ op = "import" /\ pc = "done" /\ Len(items) = 2
    /\ ~items[1].exists
    /\ Len(log) = 1 /\ log[1].item = 2 /\ log[1].kind = "copy_from"
    /\ log[1].exit = 0 /\ result = "failure"

\* an import from a directory that does not exist
C18_MissingDirReached ==
    NothingToImport /\ inputDir.dir.given /\ ~inputDir.dir.exists

(***************************************************************************)
(* C19.  When a backup that found no file at the artifact path returns     *)
(* failure, the artifact path holds no file that passes                    *)
(* _verify_backup_file.                                                    *)
(***************************************************************************)
\* a backup that began with no file at the artifact path is returning False
FailedFromNoFile ==
    op = "backup" /\ pc = "done" /\ result = "failure" /\ ~hadFile

\* C19 as claimed
C19_NoArtifactAfterFailure ==
    FailedFromNoFile => ~VerifyBackupFile(fs["artifact"])

\* C19 as amended: unless the verification failed on an I/O error
C19_NoArtifactUnlessIoError ==
    (FailedFromNoFile /\ ~ioError) => ~VerifyBackupFile(fs["artifact"])

\* the compression failed after the dump was written: the dump lies at the
\* artifact path
C19_Witness ==
    /\ FailedFromNoFile /\ ~ioError
    /\ LastStep \in { "compress", "unlink" }
    /\ fs["artifact"].exists /\ fs["artifact"].data # << >>

\* the rename failed: no file lies at the artifact path
C19_RenameFailedReached ==
    FailedFromNoFile /\ LastStep = "rename" /\ ~fs["artifact"].exists

(***************************************************************************)
(* C20.  A file of an import batch that is reported as failed leaves the   *)
(* rows of its table as they were before the file was processed, with      *)
(* truncation requested or not.                                            *)
(***************************************************************************)
\* this step processes a file of an import batch and the file fails: no
\* load of it exits 0
FileFails ==
    /\ op = "import" /\ pc = "loop" /\ idx' = idx + 1
    /\ ~\E k \in 1..Len(log') :
          /\ log'[k].item = idx' /\ log'[k].kind = "copy_from"
          /\ log'[k].exit = 0

\* C20 as claimed
C20_FailedFileKeepsRows == [][FileFails => rows' = rows]_vars

\* the same without truncation requested
C20_FailedFileKeepsRowsNoTruncate ==
    [][(FileFails /\ ~truncate) => rows' = rows]_vars

\* with truncation requested, the rows change only when the truncate
\* succeeded and the load failed, and the table is then empty
C20_FailedFileTruncated ==
    [][(FileFails /\ truncate /\ rows' # rows) =>
          /\ log'[Len(log')].kind = "copy_from"
          /\ log'[Len(log')].exit # 0
          /\ log'[Len(log') - 1].kind = "truncate"
          /\ log'[Len(log') - 1].exit = 0
          /\ rows' = [rows EXCEPT
                        ![Join(log'[Len(log')].schema,
                               log'[Len(log')].table)] = { }]]_vars

(***************************************************************************)
(* C21.  When the artifact path holds a file whose content cannot be       *)
(* decompressed in full (not a gzip stream, or one cut short), restore     *)
(* returns failure, the restore executor is never launched and no step of  *)
(* the call changes the database.                                          *)
(* (Stated as claimed; it fails only where C2 fails: the gate raising.)    *)
(***************************************************************************)
\* a restore of a file on which gzip.open(path, 'rb').read() raises
Undecompressible ==
    /\ op = "restore"
    /\ fs["artifact"].exists
    /\ ~GzipReadAll(fs["artifact"].data).ok

\* the gate met a major that is not an integer
GateRaised == GateRan /\ ~VersionMissing /\ ~MajorsParsed

C21_State ==
    Undecompressible =>
        /\ ~ExecutorLaunched
        /\ (pc = "done") => result = "failure"

C21_Step == Undecompressible => db' = db

C21_UndecompressibleFails == [] C21_State /\ [][C21_Step]_vars

\* the same with the gate's raise counted apart: what the code does
C21_StateButRaise ==
    Undecompressible =>
        /\ ~ExecutorLaunched
        /\ (pc = "done") =>
              result = (IF GateRaised THEN "raised" ELSE "failure")

C21_UndecompressibleFailsButRaise ==
    [] C21_StateButRaise /\ [][C21_Step]_vars

\* the decompression itself failed: gate and existence check passed, the
\* file is a gzip stream cut short before its trailer
C21_CutShortReached ==
    /\ Undecompressible /\ pc = "done" /\ steps = RestoreSteps
    /\ Head(fs["artifact"].data) = "H"

\* the file is not a gzip stream at all, and the database holds tables
C21_NotGzipReached ==
    /\ Undecompressible /\ pc = "done" /\ steps = RestoreSteps
    /\ Head(fs["artifact"].data) # "H" /\ db # { }

\* a zero-byte file is read as empty content: the executor is launched
C21_ZeroByteLaunched ==
    /\ op = "restore" /\ fs["artifact"] = File(<< >>)
    /\ ExecutorLaunched /\ stdin = << >>

(***************************************************************************)
(* C22.  Whenever backup returns success, the artifact path holds a        *)
(* non-empty gzip stream whose decompressed content is the output of the   *)
(* dump tool, no file is left at the temporary path <artifact path>.gz and *)
(* no path holds the dump uncompressed.                                    *)
(***************************************************************************)
BackupSucceeded == op = "backup" /\ pc = "done" /\ result = "success"

C22_ArtifactAfterSuccess ==
    BackupSucceeded =>
        LET f == fs["artifact"] IN
        /\ f.exists /\ f.data # << >>
        /\ IsGzipStream(f.data)
        /\ GzipReadAll(f.data) = [ok |-> TRUE, out |-> DumpOf(db)]
        /\ ~fs["tmp"].exists
        /\ \A p \in Paths : fs[p] # File(DumpOf(db))

\* a backup of a database with tables succeeded where a file had been at
\* the artifact path before the call
C22_Witness ==
    /\ BackupSucceeded /\ hadFile /\ db # { }
    /\ steps = BackupSteps

\* a file an earlier call left at the temporary path is overwritten by the
\* compression (gzip.open(..., 'wb') truncates it)
C22_LeftoverOverwritten ==
    [][(pc = "gzip" /\ fs["tmp"].exists /\ pc' = "unlink") =>
          fs'["tmp"] = File(Gzip(fs["artifact"].data))]_vars

====
